---- MODULE Spec2Model ----
(***************************************************************************)
(* Generation Job Orchestrator of the virtual try-on extension             *)
(* (src/extension-scraper/background.js): the single job record kept in    *)
(* memory by the background service worker, the chrome.storage.local slot  *)
(* that persists it, the asynchronous startGeneration calls in flight, and *)
(* the message listener (GET_STATUS / START_GENERATION / CLEAR_RESULT).     *)
(*                                                                         *)
(* JavaScript null and undefined are the strings "null" and "undefined";   *)
(* a null startTime is NULL_TIME.  chrome.storage.local applies the get    *)
(* and set operations in the order they were issued and nothing but the    *)
(* startup get reads the slot, so a set takes effect where it is issued    *)
(* and the startup get answers with the slot as it was when it was issued. *)
(*                                                                         *)
(* Spec is the worker.  PopupSpec is the popup script (src/unnamed/        *)
(* part_000: status check on opening, page scrape, selection, Generate,    *)
(* pollForCompletion) against a worker that may answer with any record.    *)
(* ExtractSpec is scrapeGarmentData's image loop on pages of img elements. *)
(* Each specification leaves the other parts' variables at their initial   *)
(* values.                                                                 *)
(***************************************************************************)
EXTENDS Integers, Sequences, FiniteSets, TLC

\* ------------------------------------------------------------------ bounds
MaxStarts == 2
MaxRestarts == 1

\* popup: pollForCompletion calls made by one popup, and GET_STATUS messages of
\* one poller that wait for their response at the same time
MaxPollers == 1

MaxInFlight == 2

\* injected script: img elements of a page
MaxImgs == 3

\* popups attached to the worker at the same time
MaxObservers == 2

\* ------------------------------------------------------- program constants
TIMEOUT_MS == 5 * 60 * 1000
NULL_TIME == -1

Null == "null"
Undefined == "undefined"
TimeoutMessage == "Generation timed out. Please try again."
NoGarmentMessage == "Could not load garment image"
IMAGE == "image_base64"

\* the readings of Date.now(): the worker's first launch, exactly the staleness
\* threshold later, and one millisecond after that
Instants == {1000, 1000 + TIMEOUT_MS, 1000 + TIMEOUT_MS + 1}

\* requests a caller can put in a START_GENERATION message: a garment URL only,
\* an inline garment image together with a URL, and neither (a request with an
\* inline image and no URL takes the path of R_both: the URL is never read once
\* garment_photo is truthy)
Requests == {"R_url", "R_both", "R_none"}

garment_photo(request) == IF request = "R_both" THEN "data:image/jpeg;base64,AAAA" ELSE Undefined

garment_url(request) == IF request \in {"R_url", "R_both"} THEN "https://shop.example/garment.jpg" ELSE Undefined

Truthy(v) == v \notin {Null, Undefined, ""}

\* reader.result of a successful readAsDataURL
FetchedDataUrl == "data:image/jpeg;base64,BBBB"

\* outcomes of fetchImageAsBase64(url)
FetchOutcomes == {"ok", "network_error", "http_error", "reader_error"}

\* outcomes of the POST /api/tryon call and of reading its body
PostOutcomes == {"image", "network_error", "http_error", "bad_json", "error_field", "no_image"}

\* error.message of what fetchImageAsBase64 throws
FetchErrorMessage(o) ==
  CASE o = "network_error" -> "Failed to fetch"
    [] o = "http_error" -> "Failed to fetch image: 404"
    [] OTHER -> Undefined

\* error.message of what the service call throws
PostErrorMessage(o) ==
  CASE o = "network_error" -> "Failed to fetch"
    [] o = "http_error" -> "Server error: 500"
    [] o = "bad_json" -> "Unexpected token < in JSON at position 0"
    [] OTHER -> "workflow failed"

\* result.image_base64 of a parsed body without an error field
ImageOf(o) == IF o = "image" THEN IMAGE ELSE Undefined

IdleRecord ==
  [status |-> "idle", request |-> Null, result |-> Null, error |-> Null,
   startTime |-> NULL_TIME]

GeneratingRecord(request, t) ==
  [status |-> "generating", request |-> request, result |-> Null, error |-> Null,
   startTime |-> t]

CompleteRecord(request, image, t) ==
  [status |-> "complete", request |-> request, result |-> image, error |-> Null,
   startTime |-> t]

ErrorRecord(request, message, t) ==
  [status |-> "error", request |-> request, result |-> Null, error |-> message,
   startTime |-> t]

VARIABLES
  bgAlive,          \* the service worker is running
  generationState,  \* its in-memory record
  jobs,             \* startGeneration calls suspended at an await (with history:
                    \* the startTime their start wrote, the calls they made)
  store,            \* chrome.storage.local[GENERATION_STATE_KEY]: <<>> or <<record>>
  getReply,         \* <<>> or <<data>>: the startup get's answer, callback not yet run
  now,              \* Date.now()
  issued,           \* the outbound calls (fetch, POST) started in the last step
  written,          \* the records chrome.storage.local.set was called with in the last step
  response,         \* what the listener passed to sendResponse in the last step
  notification,     \* the last chrome.runtime.sendMessage of the worker
  cur,              \* history: the job accepted by the last start, if no clear followed
  last,             \* history: the step just taken
  starts, restarts

\* the popup script
VARIABLES
  opened,              \* the DOMContentLoaded handler has read the status
  screen,              \* the screen showScreen made visible
  panel,               \* which of loading / selectionContent / noImages is shown
  selectedGarmentUrl,
  uploadedPhoto,
  scrapedImages,
  generateDisabled,    \* elements.generateBtn.disabled
  scraping,            \* a scrapePageData call waits for the tab or the script
  scraped,             \* history: how the most recent scrapePageData call ended
  pollers,             \* one entry per pollForCompletion call
  outbox,              \* the messages the popup sent in the last step
  event                \* history: the popup's step just taken

\* the script injected into the page
VARIABLES
  document,            \* the page's img elements, in document order
  head,                \* the page's h1 text and meta description / og:description contents
  returned             \* <<>>, or <<what scrapeGarmentData returned>>

\* between the popups and the worker
VARIABLES
  channel              \* the CLEAR_RESULT messages of showResult and of the error
                       \* branches, sent and not yet handled by the worker

page == <<document, head, returned>>

background ==
  <<bgAlive, generationState, jobs, store, getReply, now, issued, written, response,
    notification, cur, last, starts, restarts>>

popup ==
  <<opened, screen, panel, selectedGarmentUrl, uploadedPhoto, scrapedImages,
    generateDisabled, scraping, scraped, pollers, outbox, event>>

vars == <<background, popup, page, channel>>

NoResponse == [kind |-> "none", body |-> IdleRecord]

NoNotification == [type |-> "none", payload |-> Null]

NoJob == [request |-> Null, stage |-> "none", out |-> "", posted |-> FALSE]

Step(op, live, out) ==
  [op |-> op, live |-> live, out |-> out, before |-> generationState.status,
   again |-> op = "clear" /\ last.op = "clear"]

\* saveState(): chrome.storage.local.set({ [GENERATION_STATE_KEY]: record })
saveState(record) == <<record>>

NoEvent == [op |-> "init", who |-> 0, arg |-> ""]

\* no popup is open
NoPopup ==
  /\ opened = FALSE
  /\ screen = "selection"
  /\ panel = "loading"
  /\ selectedGarmentUrl = Null
  /\ uploadedPhoto = Null
  /\ scrapedImages = <<>>
  /\ generateDisabled = TRUE
  /\ scraping = FALSE
  /\ scraped = "none"
  /\ pollers = <<>>
  /\ outbox = <<>>
  /\ event = NoEvent

\* no page has been scraped
NoPage ==
  /\ document = <<>>
  /\ head = [h1 |-> <<>>, metaDescription |-> <<>>, ogDescription |-> <<>>]
  /\ returned = <<>>

\* the worker script's top level has run: the let initialiser, the startup get
BackgroundInit ==
  /\ bgAlive = TRUE
  /\ generationState = IdleRecord
  /\ jobs = {}
  /\ store = <<>>
  /\ getReply = <<store>>
  /\ now = 1000
  /\ issued = <<>>
  /\ written = <<>>
  /\ response = NoResponse
  /\ notification = NoNotification
  /\ cur = NoJob
  /\ last = [op |-> "init", live |-> FALSE, out |-> "", before |-> "idle",
             again |-> FALSE]
  /\ starts = 0
  /\ restarts = 0

Init ==
  /\ BackgroundInit
  /\ NoPopup
  /\ NoPage
  /\ channel = {}


\* ----------------------------------------------------------- the record writes
StartRecord_KeepsResult(request, t) ==
  [GeneratingRecord(request, t) EXCEPT !.result = generationState.result]

\* startGeneration's first write
StartRecord(request, t) == GeneratingRecord(request, t)

ClearRecord_KeepsResult == [IdleRecord EXCEPT !.result = generationState.result]

ClearRecord_KeepsStartTime == [IdleRecord EXCEPT !.startTime = generationState.startTime]

\* CLEAR_RESULT's write
ClearRecord == IdleRecord

\* the success write of startGeneration; startTime is read from the slot
SuccessRecord(request, image, slot) == CompleteRecord(request, image, slot.startTime)

FailureRecord_Swallowed(request, message, slot) == slot

\* the catch block's write of startGeneration; startTime is read from the slot
FailureRecord(request, message, slot) == ErrorRecord(request, message, slot.startTime)

IsStale_AtThreshold(record, t) ==
  record.status = "generating" /\ t - record.startTime >= TIMEOUT_MS

\* the startup callback's test of a restored record
IsStale(record, t) == record.status = "generating" /\ t - record.startTime > TIMEOUT_MS

\* the record the startup callback leaves in memory for a stored record
Recover(record, t) ==
  IF IsStale(record, t)
    THEN [record EXCEPT !.status = "error", !.error = TimeoutMessage]
    ELSE record

\* a parsed body counts as a success unless its error field is truthy
BodyIsSuccess(o) == o \in {"image", "no_image"}

CompleteNotification(record) == [type |-> "GENERATION_COMPLETE", payload |-> record.result]

ErrorNotification(message) == [type |-> "GENERATION_ERROR", payload |-> message]

FetchCall(url) == [call |-> "fetch", arg |-> url]

PostGarment_SendsUrl(request, garmentBase64) ==
  IF Truthy(garment_photo(request)) THEN garment_photo(request) ELSE garment_url(request)

\* garment_photo of the POST body
PostGarment(request, garmentBase64) == garmentBase64

PostCall(request, garmentBase64) ==
  [call |-> "post", arg |-> PostGarment(request, garmentBase64)]

Remaining_Retry(j) ==
  {[j EXCEPT !.fetches = IF j.pc = "fetch" THEN @ + 1 ELSE @,
             !.posts = IF j.pc = "post" THEN @ + 1 ELSE @]}

\* what is left of a startGeneration call once its catch block has run
Remaining(j) == {}

CompletionEffects_NotifyFirst == <<"notify", "save">>

\* what startGeneration does, in this order, once the record of a finished
\* call is assigned: saveState(), then chrome.runtime.sendMessage
CompletionEffects == <<"save", "notify">>

\* the suspended calls once a later start or clear has taken the slot: none of
\* them is the slot's job any more (calls that no longer differ count once)
Superseded(calls) == {[c EXCEPT !.live = FALSE] : c \in calls}

\* ------------------------------------------------------------------ actions
GetStatus_Consumes ==
  /\ bgAlive
  /\ response' = [kind |-> "status", body |-> generationState]
  /\ generationState' =
       IF generationState.status \in {"complete", "error"} THEN IdleRecord
       ELSE generationState
  /\ store' =
       IF generationState.status \in {"complete", "error"} THEN saveState(IdleRecord)
       ELSE store
  /\ issued' = <<>>
  /\ written' = <<>>
  /\ notification' = NoNotification
  /\ last' = Step("get", FALSE, "")
  /\ UNCHANGED <<bgAlive, jobs, getReply, now, cur, starts, restarts>>
  /\ UNCHANGED <<popup, page, channel>>

\* onMessage GET_STATUS: sendResponse({ ...generationState })
GetStatus ==
  /\ bgAlive
  /\ response' = [kind |-> "status", body |-> generationState]
  /\ issued' = <<>>
  /\ written' = <<>>
  /\ notification' = NoNotification
  /\ last' = Step("get", FALSE, "")
  /\ UNCHANGED <<bgAlive, generationState, jobs, store, getReply, now, cur,
                 starts, restarts>>
  /\ UNCHANGED <<popup, page, channel>>

\* onMessage START_GENERATION: startGeneration(message.request) runs to its first
\* await (or through its catch block when no garment is available), then
\* sendResponse({ started: true })
StartGeneration(request) ==
  LET gen == StartRecord(request, now)
      garmentBase64 == garment_photo(request)
      fetching == ~Truthy(garmentBase64) /\ Truthy(garment_url(request))
      failing == ~Truthy(garmentBase64) /\ ~fetching
      err == FailureRecord(request, NoGarmentMessage, gen)
      call == [request |-> request, pc |-> IF fetching THEN "fetch" ELSE "post",
               live |-> TRUE, startTime |-> now, garment |-> garmentBase64,
               fetches |-> IF fetching THEN 1 ELSE 0,
               posts |-> IF fetching THEN 0 ELSE 1]
  IN /\ bgAlive
     /\ starts < MaxStarts
     /\ starts' = starts + 1
     /\ generationState' = IF failing THEN err ELSE gen
     /\ store' = saveState(IF failing THEN err ELSE gen)
     /\ written' = IF failing THEN <<gen, err>> ELSE <<gen>>
     /\ jobs' = IF failing THEN Superseded(jobs) ELSE Superseded(jobs) \cup {call}
     /\ issued' = IF failing THEN <<>>
                  ELSE IF fetching THEN <<FetchCall(garment_url(request))>>
                       ELSE <<PostCall(request, garmentBase64)>>
     /\ notification' = IF failing THEN ErrorNotification(NoGarmentMessage)
                        ELSE NoNotification
     /\ response' = [kind |-> "started", body |-> IdleRecord]
     /\ cur' = [request |-> request,
                stage |-> IF failing THEN "resolve" ELSE "running",
                out |-> IF failing THEN "no_garment" ELSE "",
                posted |-> ~failing /\ ~fetching]
     /\ last' = Step("start", TRUE, IF failing THEN "no_garment" ELSE "")
     /\ UNCHANGED <<bgAlive, getReply, now, restarts>>
     /\ UNCHANGED <<popup, page, channel>>

\* onMessage CLEAR_RESULT: the listener's case
ClearHandled ==
  /\ bgAlive
  /\ generationState' = ClearRecord
  /\ store' = saveState(ClearRecord)
  /\ written' = <<ClearRecord>>
  /\ issued' = <<>>
  /\ response' = [kind |-> "cleared", body |-> IdleRecord]
  /\ notification' = NoNotification
  /\ cur' = NoJob
  /\ jobs' = Superseded(jobs)
  /\ last' = Step("clear", FALSE, "")
  /\ UNCHANGED <<bgAlive, getReply, now, starts, restarts>>

\* a CLEAR_RESULT is handled whose sender is not followed
ClearResult ==
  /\ ClearHandled
  /\ UNCHANGED <<popup, page, channel>>

\* startGeneration resumes from await fetchImageAsBase64(request.garment_url):
\* fetch, response.blob() and the FileReader are awaited one after the other
\* without touching the record, so their outcome is taken in one step. On
\* success the POST is issued; on failure the catch block runs.
FetchReturn(j, o) ==
  LET err == FailureRecord(j.request, FetchErrorMessage(o), generationState)
  IN /\ bgAlive
     /\ j \in jobs
     /\ j.pc = "fetch"
     /\ IF o = "ok"
          THEN /\ jobs' = (jobs \ {j}) \cup
                         {[j EXCEPT !.pc = "post", !.garment = FetchedDataUrl,
                                    !.posts = @ + 1]}
               /\ issued' = <<PostCall(j.request, FetchedDataUrl)>>
               /\ cur' = IF j.live THEN [cur EXCEPT !.posted = TRUE] ELSE cur
               /\ notification' = NoNotification
               /\ written' = <<>>
               /\ UNCHANGED <<generationState, store>>
          ELSE /\ jobs' = (jobs \ {j}) \cup Remaining(j)
               /\ issued' = <<>>
               /\ generationState' = err
               /\ store' = saveState(err)
               /\ written' = <<err>>
               /\ notification' = ErrorNotification(FetchErrorMessage(o))
               /\ cur' = IF j.live THEN [cur EXCEPT !.stage = "fetch", !.out = o]
                           ELSE cur
     /\ response' = NoResponse
     /\ last' = Step("fetch", j.live, o)
     /\ UNCHANGED <<bgAlive, getReply, now, starts, restarts>>
     /\ UNCHANGED <<popup, page, channel>>

\* startGeneration resumes from the POST to /api/tryon and the read of its body
\* (fetch and response.json() are awaited without touching the record), then
\* runs the success write or the catch block and notifies
PostReturn(j, o) ==
  LET done == SuccessRecord(j.request, ImageOf(o), generationState)
      err == FailureRecord(j.request, PostErrorMessage(o), generationState)
      record == IF BodyIsSuccess(o) THEN done ELSE err
  IN /\ bgAlive
     /\ j \in jobs
     /\ j.pc = "post"
     /\ jobs' = (jobs \ {j}) \cup (IF BodyIsSuccess(o) THEN {} ELSE Remaining(j))
     /\ issued' = <<>>
     /\ generationState' = record
     /\ store' = saveState(record)
     /\ written' = <<record>>
     /\ notification' = IF BodyIsSuccess(o) THEN CompleteNotification(done)
                        ELSE ErrorNotification(PostErrorMessage(o))
     /\ cur' = IF j.live THEN [cur EXCEPT !.stage = "post", !.out = o] ELSE cur
     /\ response' = NoResponse
     /\ last' = Step("post", j.live, o)
     /\ UNCHANGED <<bgAlive, getReply, now, starts, restarts>>
     /\ UNCHANGED <<popup, page, channel>>

\* the callback of the startup chrome.storage.local.get
Restore ==
  LET data == getReply[1]
      record == Recover(data[1], now)
  IN /\ bgAlive
     /\ getReply # <<>>
     /\ getReply' = <<>>
     /\ IF data = <<>>
          THEN written' = <<>> /\ UNCHANGED <<generationState, store>>
          ELSE /\ generationState' = record
               /\ IF IsStale(data[1], now)
                    THEN store' = saveState(record) /\ written' = <<record>>
                    ELSE written' = <<>> /\ UNCHANGED store
     /\ issued' = <<>>
     /\ response' = NoResponse
     /\ notification' = NoNotification
     /\ last' = Step("restore", FALSE,
                     IF data = <<>> THEN "absent"
                     ELSE IF IsStale(data[1], now) THEN "stale" ELSE data[1].status)
     /\ UNCHANGED <<bgAlive, jobs, now, cur, starts, restarts>>
     /\ UNCHANGED <<popup, page, channel>>

\* the host terminates the service worker: memory, suspended calls and the
\* pending callback are gone
Terminate ==
  /\ bgAlive
  /\ restarts < MaxRestarts
  /\ bgAlive' = FALSE
  /\ generationState' = IdleRecord
  /\ jobs' = {}
  /\ getReply' = <<>>
  /\ response' = NoResponse
  /\ notification' = NoNotification
  /\ issued' = <<>>
  /\ written' = <<>>
  /\ last' = Step("terminate", FALSE, "")
  /\ UNCHANGED <<store, now, cur, starts, restarts>>
  /\ UNCHANGED <<popup, page, channel>>

\* the host terminates the service worker while startGeneration handles the
\* return of a call, between the two effects of CompletionEffects: the first
\* has happened, the second never does
KilledInCompletion(j, o) ==
  LET record == IF j.pc = "fetch"
                  THEN FailureRecord(j.request, FetchErrorMessage(o), generationState)
                  ELSE IF BodyIsSuccess(o)
                         THEN SuccessRecord(j.request, ImageOf(o), generationState)
                         ELSE FailureRecord(j.request, PostErrorMessage(o), generationState)
      note == IF j.pc = "fetch" THEN ErrorNotification(FetchErrorMessage(o))
              ELSE IF BodyIsSuccess(o) THEN CompleteNotification(record)
                   ELSE ErrorNotification(PostErrorMessage(o))
      done == {CompletionEffects[1]}
  IN /\ bgAlive
     /\ restarts < MaxRestarts
     /\ j \in jobs
     /\ \/ j.pc = "fetch" /\ o \in FetchOutcomes \ {"ok"}
        \/ j.pc = "post" /\ o \in PostOutcomes
     /\ store' = IF "save" \in done THEN saveState(record) ELSE store
     /\ written' = IF "save" \in done THEN <<record>> ELSE <<>>
     /\ notification' = IF "notify" \in done THEN note ELSE NoNotification
     /\ bgAlive' = FALSE
     /\ generationState' = IdleRecord
     /\ jobs' = {}
     /\ getReply' = <<>>
     /\ cur' = IF j.live THEN [cur EXCEPT !.stage = j.pc, !.out = o] ELSE cur
     /\ response' = NoResponse
     /\ issued' = <<>>
     /\ last' = Step("killed", j.live, o)
     /\ UNCHANGED <<now, starts, restarts>>
     /\ UNCHANGED <<popup, page, channel>>

\* the service worker script runs again: the let initialiser, the startup get
Restart ==
  /\ ~bgAlive
  /\ bgAlive' = TRUE
  /\ generationState' = IdleRecord
  /\ getReply' = <<store>>
  /\ restarts' = restarts + 1
  /\ response' = NoResponse
  /\ notification' = NoNotification
  /\ issued' = <<>>
  /\ written' = <<>>
  /\ last' = Step("restart", FALSE, "")
  /\ UNCHANGED <<jobs, store, now, cur, starts>>
  /\ UNCHANGED <<popup, page, channel>>

\* time passes
Tick(t) ==
  /\ t > now
  /\ now' = t
  /\ response' = NoResponse
  /\ notification' = NoNotification
  /\ issued' = <<>>
  /\ written' = <<>>
  /\ last' = Step("tick", FALSE, "")
  /\ UNCHANGED <<bgAlive, generationState, jobs, store, getReply, cur, starts,
                 restarts>>
  /\ UNCHANGED <<popup, page, channel>>

Next ==
  \/ GetStatus
  \/ \E request \in Requests : StartGeneration(request)
  \/ ClearResult
  \/ \E j \in jobs : \E o \in FetchOutcomes : FetchReturn(j, o)
  \/ \E j \in jobs : \E o \in PostOutcomes : PostReturn(j, o)
  \/ Restore
  \/ Terminate
  \/ \E j \in jobs : \E o \in FetchOutcomes \cup PostOutcomes : KilledInCompletion(j, o)
  \/ Restart
  \/ \E t \in Instants : Tick(t)

Spec == Init /\ [][Next]_vars

\* a suspended startGeneration call resumes
Returns ==
  \E j \in jobs :
    \/ \E o \in FetchOutcomes : FetchReturn(j, o)
    \/ \E o \in PostOutcomes : PostReturn(j, o)

\* The worker with what its environment guarantees: every outbound call
\* returns or fails, the startup get's callback is run, a message to a stopped
\* worker starts it again, and time passes.  Termination by the host and
\* messages from a popup may or may not happen.
LiveSpec ==
  /\ Init
  /\ [][Next]_vars
  /\ WF_vars(Returns)
  /\ WF_vars(Restore)
  /\ WF_vars(Restart)
  /\ WF_vars(\E t \in Instants : Tick(t))


\* ------------------------------------------ several popups on one worker
\* The worker with MaxObservers popups attached (one per browser window).  A
\* popup that is shown a Complete or Error record sends CLEAR_RESULT; the
\* message is handled by the worker some steps later.
Observers == 1..MaxObservers

\* clearGenerationResult() called by popup o after it saw a finished record;
\* at: history, the number of starts the worker had accepted by then
ReactiveClear(o) == [who |-> o, at |-> starts]

Pending(o) == \E m \in channel : m.who = o

\* the answer to popup o's GET_STATUS is a finished record: the poller's
\* complete branch (showResult, which clears) or its error branch
ObservedByQuery(o) ==
  /\ response.kind = "status"
  /\ response.body.status \in {"complete", "error"}
  /\ ~Pending(o)
  /\ channel' = channel \cup {ReactiveClear(o)}
  /\ UNCHANGED <<background, popup, page>>

\* popup o's onMessage listener receives GENERATION_COMPLETE: showResult
ObservedByNotification(o) ==
  /\ notification.type = "GENERATION_COMPLETE"
  /\ ~Pending(o)
  /\ channel' = channel \cup {ReactiveClear(o)}
  /\ UNCHANGED <<background, popup, page>>

\* the worker handles the CLEAR_RESULT m
ClearDelivered(m) ==
  /\ ClearHandled
  /\ channel' = channel \ {m}
  /\ UNCHANGED <<popup, page>>

ObserverNext ==
  \/ Next
  \/ \E o \in Observers : ObservedByQuery(o)
  \/ \E o \in Observers : ObservedByNotification(o)
  \/ \E m \in channel : ClearDelivered(m)

ObserverSpec == Init /\ [][ObserverNext]_vars

\* -------------------------------------------------------------------- popup
\* The popup script against a worker that may answer GET_STATUS with any record
\* or not at all.

\* what scrapePageData gets: images, an empty list, no active tab, or a
\* failing chrome.scripting.executeScript
ScrapeOutcomes == {"images", "empty", "no_tab", "script_error"}

\* data.images of a page with garment pictures
ImagesFound == <<"https://shop.example/a.jpg", "https://shop.example/b.jpg">>

\* the data URL of the user's photo
Photo == "data:image/jpeg;base64,PPPP"

\* what the callback of sendMessage({type: 'GET_STATUS'}) is called with: a
\* record by its status (complete_undefined: Complete with result undefined),
\* or nothing
Replies == {"generating", "complete", "complete_undefined", "error", "idle", "absent"}

\* status of what checkGenerationStatus resolves with: response || {status: 'idle'}
StatusOf(reply) ==
  IF reply = "absent" THEN "idle"
  ELSE IF reply = "complete_undefined" THEN "complete" ELSE reply

\* the messages the popup's onMessage listener acts on
Notifications == {"GENERATION_COMPLETE", "GENERATION_ERROR"}

POLL_INTERVAL_MS == 1000

StopsPolling_NotOnIdle(status) == status \in {"complete", "error"}

\* the branches of the interval callback that call clearInterval
StopsPolling(status) == status \in {"complete", "error", "idle"}

\* pollForCompletion: setInterval(callback, 1000)
NewPoller == [timer |-> "active", interval |-> POLL_INTERVAL_MS, inFlight |-> 0]

\* updateGenerateButton: canGenerate, and the negation of handleGenerate's guard
canGenerate(garment, photo) == garment # Null /\ photo # Null

PanelAfterScrape_AlwaysContent(o) == "content"

\* the panel scrapePageData shows when it ends: selectionContent after it got
\* images, noImages after an empty result, a missing tab or a thrown error
PanelAfterScrape(o) == IF o = "images" THEN "content" ELSE "noImages"

\* popup.html: the Generate button is part of the selection panel, so a click
\* can reach it only on the selection screen while selectionContent is shown
GenerateShown == screen = "selection" /\ panel = "content"

Message(type, who, garment, photo) ==
  [type |-> type, who |-> who, garment_url |-> garment, model_photo |-> photo]

GetStatusMessage(p) == Message("GET_STATUS", p, Null, Null)

ClearMessage == Message("CLEAR_RESULT", 0, Null, Null)

StartMessage(garment, photo) == Message("START_GENERATION", 0, garment, photo)

Images(list) == {list[i] : i \in DOMAIN list}

\* the state the popup script starts in; loadPhoto has restored a saved photo
\* or found none
PopupInit ==
  /\ BackgroundInit
  /\ NoPage
  /\ channel = {}
  /\ opened = FALSE
  /\ screen = "selection"
  /\ panel = "loading"
  /\ selectedGarmentUrl = Null
  /\ uploadedPhoto \in {Null, Photo}
  /\ scrapedImages = <<>>
  /\ generateDisabled \in BOOLEAN
  /\ scraping = FALSE
  /\ scraped = "none"
  /\ pollers = <<>>
  /\ outbox = <<>>
  /\ event = NoEvent

\* the DOMContentLoaded handler from its GET_STATUS answer on
Opened(reply) ==
  LET status == StatusOf(reply)
      polls == status = "generating"
      shows == reply = "complete"
      clears == reply = "error"
  IN /\ ~opened
     /\ opened' = TRUE
     /\ screen' = IF polls THEN "generating" ELSE IF shows THEN "result" ELSE screen
     /\ pollers' = IF polls THEN Append(pollers, NewPoller) ELSE pollers
     /\ outbox' = IF shows \/ clears THEN <<ClearMessage>> ELSE <<>>
     /\ scraping' = (~polls /\ ~shows)
     /\ panel' = IF ~polls /\ ~shows THEN "loading" ELSE panel
     /\ event' = [op |-> "opened", who |-> 0, arg |-> reply]
     /\ UNCHANGED <<selectedGarmentUrl, uploadedPhoto, scrapedImages, generateDisabled,
                    scraped>>
     /\ UNCHANGED <<background, page, channel>>

\* a click on refreshBtn or retryBtn: scrapePageData up to its first await
Refresh ==
  /\ opened
  /\ screen = "selection"
  /\ ~scraping
  /\ scraping' = TRUE
  /\ panel' = "loading"
  /\ outbox' = <<>>
  /\ event' = [op |-> "refresh", who |-> 0, arg |-> ""]
  /\ UNCHANGED <<opened, screen, selectedGarmentUrl, uploadedPhoto, scrapedImages,
                 generateDisabled, scraped, pollers>>
  /\ UNCHANGED <<background, page, channel>>

\* scrapePageData from the answer of the tab query and the injected script on
ScrapeReturn(o) ==
  /\ scraping
  /\ scraping' = FALSE
  /\ scraped' = o
  /\ scrapedImages' = IF o = "images" THEN ImagesFound ELSE scrapedImages
  /\ panel' = PanelAfterScrape(o)
  /\ outbox' = <<>>
  /\ event' = [op |-> "scraped", who |-> 0, arg |-> o]
  /\ UNCHANGED <<opened, screen, selectedGarmentUrl, uploadedPhoto, generateDisabled,
                 pollers>>
  /\ UNCHANGED <<background, page, channel>>

\* a click on a displayed image: selectGarmentImage
SelectGarment(url) ==
  /\ opened
  /\ screen = "selection"
  /\ panel = "content"
  /\ url \in Images(scrapedImages)
  /\ selectedGarmentUrl' = url
  /\ generateDisabled' = ~canGenerate(url, uploadedPhoto)
  /\ outbox' = <<>>
  /\ event' = [op |-> "select", who |-> 0, arg |-> url]
  /\ UNCHANGED <<opened, screen, panel, uploadedPhoto, scrapedImages, scraping, scraped,
                 pollers>>
  /\ UNCHANGED <<background, page, channel>>

\* handleFileSelect, from reader.onload on
UploadPhoto ==
  /\ opened
  /\ screen = "selection"
  /\ uploadedPhoto' = Photo
  /\ generateDisabled' = ~canGenerate(selectedGarmentUrl, Photo)
  /\ outbox' = <<>>
  /\ event' = [op |-> "upload", who |-> 0, arg |-> ""]
  /\ UNCHANGED <<opened, screen, panel, selectedGarmentUrl, scrapedImages, scraping,
                 scraped, pollers>>
  /\ UNCHANGED <<background, page, channel>>

\* removeUploadedPhoto
RemovePhoto ==
  /\ opened
  /\ screen = "selection"
  /\ uploadedPhoto # Null
  /\ uploadedPhoto' = Null
  /\ generateDisabled' = ~canGenerate(selectedGarmentUrl, Null)
  /\ outbox' = <<>>
  /\ event' = [op |-> "remove", who |-> 0, arg |-> ""]
  /\ UNCHANGED <<opened, screen, panel, selectedGarmentUrl, scrapedImages, scraping,
                 scraped, pollers>>
  /\ UNCHANGED <<background, page, channel>>

\* a click on the enabled generateBtn: handleGenerate, with the poller it starts
\* once the start is acknowledged
Generate ==
  /\ opened
  /\ GenerateShown
  /\ ~generateDisabled
  /\ IF canGenerate(selectedGarmentUrl, uploadedPhoto)
       THEN /\ Len(pollers) < MaxPollers
            /\ screen' = "generating"
            /\ outbox' = <<StartMessage(selectedGarmentUrl, uploadedPhoto)>>
            /\ pollers' = Append(pollers, NewPoller)
            /\ event' = [op |-> "generate", who |-> 0, arg |-> "sent"]
       ELSE /\ outbox' = <<>>
            /\ event' = [op |-> "generate", who |-> 0, arg |-> "ignored"]
            /\ UNCHANGED <<screen, pollers>>
  /\ UNCHANGED <<opened, panel, selectedGarmentUrl, uploadedPhoto, scrapedImages,
                 generateDisabled, scraping, scraped>>
  /\ UNCHANGED <<background, page, channel>>

\* the interval fires: the callback sends GET_STATUS and awaits the answer
PollTick(p) ==
  /\ p \in DOMAIN pollers
  /\ pollers[p].timer = "active"
  /\ pollers[p].inFlight < MaxInFlight
  /\ pollers' = [pollers EXCEPT ![p].inFlight = @ + 1]
  /\ outbox' = <<GetStatusMessage(p)>>
  /\ event' = [op |-> "tick", who |-> p, arg |-> ""]
  /\ UNCHANGED <<opened, screen, panel, selectedGarmentUrl, uploadedPhoto, scrapedImages,
                 generateDisabled, scraping, scraped>>
  /\ UNCHANGED <<background, page, channel>>

\* the interval callback resumes with the answer to its GET_STATUS
PollReply(p, reply) ==
  LET status == StatusOf(reply)
  IN /\ p \in DOMAIN pollers
     /\ pollers[p].inFlight > 0
     /\ pollers' = [pollers EXCEPT ![p].inFlight = @ - 1,
                                   ![p].timer = IF StopsPolling(status) THEN "cleared" ELSE @]
     /\ screen' = IF reply = "complete" THEN "result"
                  ELSE IF status = "error" THEN "selection" ELSE screen
     /\ outbox' = IF reply = "complete" \/ status = "error" THEN <<ClearMessage>> ELSE <<>>
     /\ scraping' = (scraping \/ status = "idle")
     /\ panel' = IF status = "idle" THEN "loading" ELSE panel
     /\ event' = [op |-> "reply", who |-> p, arg |-> reply]
     /\ UNCHANGED <<opened, selectedGarmentUrl, uploadedPhoto, scrapedImages,
                    generateDisabled, scraped>>
     /\ UNCHANGED <<background, page, channel>>

\* the popup's onMessage listener
Notified(type) ==
  /\ opened
  /\ screen' = IF type = "GENERATION_COMPLETE" THEN "result" ELSE "selection"
  /\ outbox' = IF type = "GENERATION_COMPLETE" THEN <<ClearMessage>> ELSE <<>>
  /\ event' = [op |-> "notified", who |-> 0, arg |-> type]
  /\ UNCHANGED <<opened, panel, selectedGarmentUrl, uploadedPhoto, scrapedImages,
                 generateDisabled, scraping, scraped, pollers>>
  /\ UNCHANGED <<background, page, channel>>

\* handleTryAnother
TryAnother ==
  /\ opened
  /\ screen = "result"
  /\ screen' = "selection"
  /\ outbox' = <<ClearMessage>>
  /\ scraping' = (scraping \/ scrapedImages = <<>>)
  /\ panel' = IF scrapedImages = <<>> THEN "loading" ELSE panel
  /\ event' = [op |-> "try_another", who |-> 0, arg |-> ""]
  /\ UNCHANGED <<opened, selectedGarmentUrl, uploadedPhoto, scrapedImages,
                 generateDisabled, scraped, pollers>>
  /\ UNCHANGED <<background, page, channel>>

PopupNext ==
  \/ \E reply \in Replies : Opened(reply)
  \/ Refresh
  \/ \E o \in ScrapeOutcomes : ScrapeReturn(o)
  \/ \E url \in Images(ImagesFound) : SelectGarment(url)
  \/ UploadPhoto
  \/ RemovePhoto
  \/ Generate
  \/ \E p \in 1..MaxPollers : PollTick(p)
  \/ \E p \in 1..MaxPollers : \E reply \in Replies : PollReply(p, reply)
  \/ \E type \in Notifications : Notified(type)
  \/ TryAnother

PopupSpec == PopupInit /\ [][PopupNext]_vars

\* --------------------------------------------------------------- extraction
\* scrapeGarmentData, the function injected into the page. A URL is the
\* sequence of its pieces, so that startsWith, includes and split work on it as
\* they do on the string; "" is the empty sequence.

Url(pieces) == pieces

NoUrl == <<>>

\* the URLs that occur on the modelled pages
A_JPG == Url(<<"http", "://shop/", "a.jpg">>)

A_JPG_W1 == Url(<<"http", "://shop/", "a.jpg", "?", "w=1">>)

A_JPG_W2 == Url(<<"http", "://shop/", "a.jpg", "?", "w=2">>)

B_JPG == Url(<<"http", "://shop/", "b.jpg">>)

LOGO_PNG == Url(<<"http", "://shop/", "logo", ".png">>)

DATA_URL == Url(<<"data:", "image/png">>)

\* an img element: src, data-src, data-lazy-src, natural size, and the URLs of
\* the srcset candidates in their order ("" for a candidate without URL)
Img(src, dataSrc, lazySrc, size, srcset) ==
  [src |-> src, dataSrc |-> dataSrc, lazySrc |-> lazySrc, naturalWidth |-> size,
   naturalHeight |-> size, srcset |-> srcset]

ImgPool ==
  { Img(A_JPG, NoUrl, NoUrl, 400, <<>>),
    Img(A_JPG_W1, NoUrl, NoUrl, 400, <<>>),
    Img(NoUrl, A_JPG_W2, NoUrl, 400, <<>>),
    Img(B_JPG, NoUrl, NoUrl, 400, <<>>),
    Img(B_JPG, NoUrl, NoUrl, 400, <<A_JPG_W1, A_JPG_W2>>),
    Img(NoUrl, NoUrl, B_JPG, 400, <<NoUrl>>),
    Img(A_JPG, NoUrl, NoUrl, 99, <<>>),
    Img(LOGO_PNG, NoUrl, NoUrl, 400, <<>>),
    Img(NoUrl, LOGO_PNG, NoUrl, 400, <<>>),
    Img(B_JPG, NoUrl, NoUrl, 400, <<A_JPG, LOGO_PNG>>),
    Img(DATA_URL, NoUrl, NoUrl, 400, <<>>) }

RECURSIVE PagesOf(_)
PagesOf(n) ==
  IF n = 0 THEN {<<>>}
  ELSE LET shorter == PagesOf(n - 1)
       IN shorter \cup {Append(d, img) : d \in {x \in shorter : Len(x) = n - 1},
                                         img \in ImgPool}

\* the pages the script is run on
Pages == PagesOf(MaxImgs)

\* a || b || c on strings
Or3(a, b, c) == IF a # NoUrl THEN a ELSE IF b # NoUrl THEN b ELSE c

\* url.startsWith(prefix), prefix one piece
StartsWith(url, prefix) == Len(url) > 0 /\ url[1] = prefix

\* url.includes(token), token one piece
Includes(url, token) == \E i \in DOMAIN url : url[i] = token

SplitAtQuery_KeepsQuery(url) == url

\* url.split('?')[0]
SplitAtQuery(url) ==
  IF Includes(url, "?")
    THEN SubSeq(url, 1, (CHOOSE i \in DOMAIN url :
                           url[i] = "?" /\ \A k \in 1..(i - 1) : url[k] # "?") - 1)
    ELSE url

\* img.src || img.dataset.src || img.dataset.lazySrc
FirstSource(img) == Or3(img.src, img.dataSrc, img.lazySrc)

\* the three early returns before the srcset is looked at
Skipped(img) ==
  LET url == FirstSource(img)
  IN \/ url = NoUrl
     \/ ~StartsWith(url, "http")
     \/ img.naturalWidth < 100
     \/ img.naturalHeight < 100
     \/ Includes(url, "logo")
     \/ Includes(url, "icon")
     \/ Includes(url, "sprite")

\* url after the srcset block: the last candidate's URL if it starts with http
Resolved(img) ==
  LET url == FirstSource(img)
      lastPart == img.srcset[Len(img.srcset)]
  IN IF img.srcset # <<>> /\ StartsWith(lastPart, "http") THEN lastPart ELSE url

\* the forEach over document.querySelectorAll('img'), from element i on
RECURSIVE ImageLoop(_, _, _, _)
ImageLoop(imgs, i, images, seen) ==
  IF i > Len(imgs) THEN images
  ELSE IF Skipped(imgs[i]) THEN ImageLoop(imgs, i + 1, images, seen)
  ELSE LET url == Resolved(imgs[i])
           key == SplitAtQuery(url)
       IN IF key \in seen THEN ImageLoop(imgs, i + 1, images, seen)
          ELSE ImageLoop(imgs, i + 1, Append(images, url), seen \cup {key})

\* A text is the sequence of its pieces: words, single spaces, other runs of
\* whitespace, and the phrases the clean-up removes; a piece has its length in
\* characters. "" is the empty sequence.
Word(id, n) == [kind |-> "word", id |-> id, len |-> n]

Space == [kind |-> "space", id |-> " ", len |-> 1]

\* a run of whitespace that is not one plain space
Gap(n) == [kind |-> "gap", id |-> "\\s", len |-> n]

\* read more | show more | view details | expand | collapse, in any case
Noise(id, n) == [kind |-> "noise", id |-> id, len |-> n]

NoText == <<>>

MIN_PART_LENGTH == 5

DESCRIPTION_LIMIT == 800

OG_PREFIX == 30

\* text.length
RECURSIVE Length(_)
Length(text) == IF text = <<>> THEN 0 ELSE Head(text).len + Length(Tail(text))

\* text.substring(0, n); a phrase cut short is no longer one of the phrases
RECURSIVE Substring(_, _)
Substring(text, n) ==
  IF text = <<>> \/ n <= 0 THEN <<>>
  ELSE IF Head(text).len <= n
         THEN <<Head(text)>> \o Substring(Tail(text), n - Head(text).len)
         ELSE <<[kind |-> IF Head(text).kind = "noise" THEN "word" ELSE Head(text).kind,
                 id |-> Head(text).id, len |-> n]>>

White(piece) == piece.kind \in {"space", "gap"}

\* text.replace(/read more|show more|view details|expand|collapse/gi, '')
RemoveNoise(text) == SelectSeq(text, LAMBDA piece : piece.kind # "noise")

\* text.replace(/\s+/g, ' ')
RECURSIVE CollapseWhitespace(_)
CollapseWhitespace(text) ==
  IF text = <<>> THEN <<>>
  ELSE IF White(Head(text))
         THEN IF Len(text) > 1 /\ White(text[2])
                THEN CollapseWhitespace(Tail(text))
                ELSE <<Space>> \o CollapseWhitespace(Tail(text))
         ELSE <<Head(text)>> \o CollapseWhitespace(Tail(text))

\* text.trim()
RECURSIVE Trim(_)
Trim(text) ==
  IF text = <<>> THEN <<>>
  ELSE IF White(Head(text)) THEN Trim(Tail(text))
  ELSE IF White(text[Len(text)]) THEN Trim(SubSeq(text, 1, Len(text) - 1))
  ELSE text

\* p.includes(q), for a q that ends where a piece of p ends
TextIncludes(p, q) ==
  \E i \in 0..(Len(p) - Len(q)) : SubSeq(p, i + 1, i + Len(q)) = q

\* parts.join(' | ')
RECURSIVE Join(_)
Join(parts) ==
  IF parts = <<>> THEN <<>>
  ELSE IF Len(parts) = 1 THEN parts[1]
  ELSE parts[1] \o <<Space, Word("|", 1), Space>> \o Join(Tail(parts))

Kept_FromMinLength(p) == p # NoText /\ Length(p) >= MIN_PART_LENGTH

\* .filter(p => p && p.length > 5)
Kept(p) == p # NoText /\ Length(p) > MIN_PART_LENGTH

\* descriptionParts on a page without ld+json scripts, expandable section
\* headers and description containers (steps 2 to 4 push nothing): the h1
\* text, the meta description if nothing was pushed before, og:description
\* unless a part includes its first 30 characters
DescriptionParts(h) ==
  LET title == IF Trim(h.h1) # NoText THEN <<Trim(h.h1)>> ELSE <<>>
      meta == IF h.metaDescription # NoText /\ title = <<>>
                THEN <<h.metaDescription>> ELSE <<>>
      sofar == title \o meta
      og == IF /\ h.ogDescription # NoText
               /\ ~\E i \in DOMAIN sofar :
                     TextIncludes(sofar[i], Substring(h.ogDescription, OG_PREFIX))
              THEN <<h.ogDescription>> ELSE <<>>
  IN sofar \o og

\* the combined and cleaned description
Description(h) ==
  Trim(CollapseWhitespace(RemoveNoise(
    Substring(Join(SelectSeq(DescriptionParts(h), Kept)), DESCRIPTION_LIMIT))))

scrapeGarmentData(imgs, h) ==
  [images |-> ImageLoop(imgs, 1, <<>>, {}), description |-> Description(h)]

\* the texts that occur on the modelled pages
TITLE == <<Word("Linen", 5), Space, Word("Shirt", 5)>>

TEXT_5 == <<Word("Shirt", 5)>>

TEXT_6 == <<Word("Shirts", 6)>>

TEXT_PLAIN == <<Word("Linen", 5), Space, Word("Shirt", 5)>>

TEXT_OTHER == <<Word("Relaxed", 7), Space, Word("fit", 3)>>

TEXT_NOISE == <<Word("Relaxed", 7), Space, Word("fit", 3), Space, Noise("Read more", 9)>>

TEXT_GAP == <<Word("Linen", 5), Gap(2), Word("Shirt", 5)>>

TEXT_PADDED == <<Space, Word("Shirts", 6), Gap(1)>>

TEXT_800 == <<Word("Long", 400), Space, Word("text", 399)>>

TEXT_801 == <<Word("Long", 400), Space, Word("text", 400)>>

\* the pages' h1 / meta description / og:description
Heads ==
  [h1 : {NoText, TITLE},
   metaDescription : {NoText, TEXT_5, TEXT_6, TEXT_PLAIN, TEXT_NOISE, TEXT_GAP,
                      TEXT_PADDED, TEXT_800, TEXT_801},
   ogDescription : {NoText, TEXT_PLAIN, TEXT_OTHER}]

\* the script is run on a page of img elements without description elements,
\* or on a page of description elements without img elements (the two parts of
\* the function do not read each other's data)
ExtractInit ==
  /\ BackgroundInit
  /\ NoPopup
  /\ channel = {}
  /\ \/ document \in Pages
        /\ head = [h1 |-> NoText, metaDescription |-> NoText, ogDescription |-> NoText]
     \/ document = <<>> /\ head \in Heads
  /\ returned = <<>>

\* chrome.scripting.executeScript({func: scrapeGarmentData}) on the page
Scrape ==
  /\ returned = <<>>
  /\ returned' = <<scrapeGarmentData(document, head)>>
  /\ UNCHANGED <<document, head, background, popup, channel>>

ExtractNext == Scrape

ExtractSpec == ExtractInit /\ [][ExtractNext]_vars

\* ------------------------------------------------------------------ properties
Stable == {"idle", "complete", "error"}

Present(v) == v \notin {Null, Undefined}

\* C1: the snapshot a GET_STATUS returns equals the record most recently
\* written to the Job Store, also after the worker was terminated and restarted.
C1_QueryReflectsStore ==
  (response.kind = "status" /\ store # <<>>) => response.body = store[1]

\* C2: a call that returns after a later start was accepted is discarded: it
\* changes neither status, request, result nor error of the record.
C2_SupersededCallDiscarded ==
  [][(last'.op \in {"fetch", "post"} /\ ~last'.live /\ cur.stage # "none")
       => /\ generationState'.status = generationState.status
          /\ generationState'.request = generationState.request
          /\ generationState'.result = generationState.result
          /\ generationState'.error = generationState.error]_vars

\* C3: while the worker runs, a record whose status is Idle, Complete or Error
\* changes only in a step that handles a start or a clear (the startup
\* callback's reload of the stored record is not counted as a change).
C3_StableUntilCommand ==
  [][(generationState.status \in Stable /\ generationState' # generationState)
       => last'.op \in {"start", "clear", "restore", "terminate", "restart"}]_vars

\* C4 as claimed: when START_GENERATION is acknowledged the record is
\* Generating with startTime = now, the given request, no result, no error, and
\* that record is what was written to the Job Store.
C4_AckedWhileGenerating ==
  last.op = "start"
    => /\ response.kind = "started"
       /\ generationState =
            [status |-> "generating", request |-> cur.request, result |-> Null,
             error |-> Null, startTime |-> now]
       /\ written = <<generationState>>

\* C4 as amended: every start first writes the Generating record (startTime =
\* now, the given request, no result, no error) and is acknowledged with
\* {started: true}; at the acknowledgement the record is still that Generating
\* record when the request carries an inline garment or a garment URL, and
\* otherwise it is already the Error record of the failed garment resolution
\* (same request and startTime), written second.
C4_StartWritesGenerating ==
  last.op = "start"
    => LET gen == [status |-> "generating", request |-> cur.request, result |-> Null,
                   error |-> Null, startTime |-> now]
       IN /\ response.kind = "started"
          /\ written # <<>>
          /\ written[1] = gen
          /\ IF Truthy(garment_photo(cur.request)) \/ Truthy(garment_url(cur.request))
               THEN generationState = gen /\ written = <<gen>>
               ELSE /\ generationState =
                         [gen EXCEPT !.status = "error", !.error = generationState.error]
                    /\ Present(generationState.error)
                    /\ written = <<gen, generationState>>
          /\ store = <<generationState>>

C4_Witness ==
  /\ last.op = "start"
  /\ last.before = "complete"
  /\ generationState.status = "generating"
  /\ response.kind = "started"

\* C5: the startup callback turns a stored Generating record older than the
\* 5-minute threshold into Error with the timeout message and persists it,
\* leaves a younger Generating record as it is, and restores a record of any
\* other status unchanged without writing.
C5_RecoveryMapping ==
  [][(last'.op = "restore" /\ getReply[1] # <<>>)
       => LET r == getReply[1][1]
          IN IF r.status = "generating" /\ now - r.startTime > 300000
               THEN /\ generationState' =
                         [r EXCEPT !.status = "error", !.error = TimeoutMessage]
                    /\ written' = <<generationState'>>
                    /\ store' = <<generationState'>>
               ELSE /\ generationState' = r
                    /\ written' = <<>>
                    /\ store' = store]_vars

C5_Witness ==
  /\ last.op = "restore"
  /\ last.out = "stale"
  /\ generationState.status = "error"
  /\ generationState.error = TimeoutMessage
  /\ store = <<generationState>>

\* C6: the record's result is present (neither null nor undefined) exactly
\* when its status is Complete.
C6_ResultIffComplete ==
  Present(generationState.result) <=> generationState.status = "complete"

\* C7: the record's error is present (neither null nor undefined) exactly
\* when its status is Error.
C7_ErrorIffError ==
  Present(generationState.error) <=> generationState.status = "error"

\* C8: once the garment fetch of a URL-only request has failed (network error
\* or non-success status) and no start or clear followed, GET_STATUS returns
\* Error with a non-empty message and no result, and no POST was made.
C8_FetchFailureReported ==
  (/\ response.kind = "status"
   /\ cur.request = "R_url"
   /\ cur.stage = "fetch"
   /\ cur.out \in {"network_error", "http_error"})
    => /\ response.body.status = "error"
       /\ Truthy(response.body.error)
       /\ response.body.result = Null
       /\ ~cur.posted

\* C9: a service call that fails (network error, non-success status,
\* unparseable body, body without image data, body with an error field) ends
\* the job, if neither superseded nor cleared, in Error with a message and an
\* Error notification, never in Complete.
C9_ServiceFailureIsError ==
  (/\ last.op = "post"
   /\ last.live
   /\ last.out \in {"network_error", "http_error", "bad_json", "no_image", "error_field"})
    => /\ generationState.status = "error"
       /\ Present(generationState.error)
       /\ notification.type = "GENERATION_ERROR"

\* C10: a successful service call of the slot's job leaves the record Complete
\* with the returned image and no error; a clear leaves the record Idle with
\* no result and no error; both in memory and in the Job Store.
C10_CompleteThenClear ==
  /\ (last.op = "post" /\ last.live /\ last.out = "image")
       => /\ generationState.status = "complete"
          /\ generationState.result = IMAGE
          /\ generationState.error = Null
          /\ store = <<generationState>>
  /\ last.op = "clear"
       => /\ generationState.status = "idle"
          /\ generationState.result = Null
          /\ generationState.error = Null
          /\ store = <<generationState>>

C10_Witness ==
  /\ last.op = "clear"
  /\ last.before = "complete"
  /\ generationState.status = "idle"
  /\ store = <<generationState>>

\* C11: clear is idempotent: after every CLEAR_RESULT, a second one in a row
\* included, the record in memory and in the Job Store is the Idle record with
\* request, result, error and startTime all null, and the call is acknowledged.
C11_ClearIdempotent ==
  last.op = "clear"
    => /\ generationState =
            [status |-> "idle", request |-> Null, result |-> Null, error |-> Null,
             startTime |-> NULL_TIME]
       /\ store = <<generationState>>
       /\ response.kind = "cleared"

C11_Witness ==
  /\ last.op = "clear"
  /\ last.again
  /\ generationState.status = "idle"
  /\ store = <<generationState>>

\* C12: a step that broadcasts GENERATION_COMPLETE / GENERATION_ERROR has written
\* the Complete / Error record to the Job Store, and when the worker is
\* terminated between the write and the notification the Job Store holds the
\* terminal record (which the next startup rehydrates) and nothing was broadcast.
C12_PersistedBeforeNotified ==
  /\ notification.type # "none"
       => /\ written # <<>>
          /\ store = <<written[Len(written)]>>
          /\ notification.type = "GENERATION_COMPLETE" => store[1].status = "complete"
          /\ notification.type = "GENERATION_ERROR" => store[1].status = "error"
  /\ last.op = "killed"
       => /\ store # <<>>
          /\ store[1].status \in {"complete", "error"}
          /\ written = store
          /\ notification.type = "none"
  /\ last.op = "restart" => getReply = <<store>>

C12_Witness ==
  /\ last.op = "killed"
  /\ ~bgAlive
  /\ store # <<>>
  /\ store[1].status = "complete"
  /\ notification.type = "none"


\* C13: when the slot's job has ended (Complete or Error) and its notification
\* reached nobody, the record and the Job Store are as the ending step wrote
\* them, and a GET_STATUS sent later, with no start or clear in between,
\* returns that terminal record: its status with its result or error.
C13_RecoveredByQuery ==
  /\ (last.op \in {"fetch", "post"} /\ notification.type # "none")
       => /\ generationState.status \in {"complete", "error"}
          /\ written = <<generationState>>
          /\ store = <<generationState>>
  /\ (response.kind = "status" /\ cur.stage \in {"resolve", "fetch", "post"})
       => /\ response.body.status \in {"complete", "error"}
          /\ response.body = store[1]

\* C14: every accepted start makes at most one garment fetch and at most one
\* POST; a fetch is issued only by the start step, a POST only by the start
\* step or by the step in which the garment fetch succeeded; a step in which a
\* fetch or the service call failed issues no call and leaves no call behind.
C14_AtMostOneAttempt ==
  /\ \A j \in jobs : j.fetches <= 1 /\ j.posts <= 1 /\ j.fetches + j.posts >= 1
  /\ Len(issued) <= 1
  /\ \A i \in DOMAIN issued :
       /\ issued[i].call = "fetch" => last.op = "start"
       /\ issued[i].call = "post"
            => last.op = "start" \/ (last.op = "fetch" /\ last.out = "ok")
  /\ (last.op = "fetch" /\ last.out # "ok") => issued = <<>>
  /\ last.op = "post" => issued = <<>>
  /\ Cardinality({j \in jobs : j.live}) <= 1

C14_Witness ==
  /\ last.op = "fetch"
  /\ last.out = "network_error"
  /\ last.live
  /\ generationState.status = "error"
  /\ jobs = {}
  /\ issued = <<>>

\* C15: every POST carries the garment as an inline data URL; a start whose
\* request has inline garment data issues the POST with that data and no
\* fetch; a start whose request has only a URL issues the fetch and no POST,
\* and the POST follows in the step in which fetch and conversion succeeded,
\* carrying the converted data; a start whose request has neither issues no
\* call and leaves the record Error.
C15_PostCarriesInlineGarment ==
  /\ \A i \in DOMAIN issued :
       issued[i].call = "post"
         => issued[i].arg \in {"data:image/jpeg;base64,AAAA", "data:image/jpeg;base64,BBBB"}
  /\ \A j \in jobs :
       j.pc = "post"
         => j.garment \in {"data:image/jpeg;base64,AAAA", "data:image/jpeg;base64,BBBB"}
  /\ (last.op = "start" /\ cur.request = "R_both")
       => issued = <<[call |-> "post", arg |-> "data:image/jpeg;base64,AAAA"]>>
  /\ (last.op = "start" /\ cur.request = "R_url")
       => issued = <<[call |-> "fetch", arg |-> "https://shop.example/garment.jpg"]>>
  /\ (last.op = "fetch" /\ last.out = "ok")
       => issued = <<[call |-> "post", arg |-> "data:image/jpeg;base64,BBBB"]>>
  /\ (last.op = "start" /\ cur.request = "R_none")
       => /\ issued = <<>>
          /\ generationState.status = "error"
          /\ ~cur.posted

C15_Witness ==
  /\ last.op = "fetch"
  /\ last.out = "ok"
  /\ last.live
  /\ cur.request = "R_url"
  /\ cur.posted
  /\ issued # <<>>
  /\ issued[1].call = "post"

\* C18: a step that handles GET_STATUS leaves the in-memory record, the Job
\* Store and the suspended calls as they were, issues no outbound call, writes
\* nothing, broadcasts nothing, and answers with the current record, field by
\* field; a second GET_STATUS in a row included.
C18_QueryIsPure ==
  [][last'.op = "get"
       => /\ generationState' = generationState
          /\ store' = store
          /\ jobs' = jobs
          /\ getReply' = getReply
          /\ issued' = <<>>
          /\ written' = <<>>
          /\ notification'.type = "none"
          /\ response'.kind = "status"
          /\ \A f \in {"status", "request", "result", "error", "startTime"} :
               response'.body[f] = generationState[f]]_vars

C18_Witness ==
  /\ last.op = "get"
  /\ last.before = "generating"
  /\ response.kind = "status"
  /\ response.body.status = "generating"
  /\ jobs # {}

\* C19: between a start and the next start or clear, the record's request is
\* the request of that start: a step that handles a call's return, the startup
\* callback, or a restart does not leave a different request in the record.
C19_RequestImmutable ==
  [][(/\ cur.stage # "none"
      /\ generationState.request = cur.request
      /\ last'.op \notin {"start", "clear", "terminate", "killed", "restart"})
       => generationState'.request = cur.request]_vars


\* C16: a poller's timer has the 1-second interval; every firing of an active
\* timer sends one GET_STATUS; the step that handles a response with status
\* Complete, Error or Idle (no response counting as Idle) cancels the timer, a
\* response with status Generating leaves it running; a cancelled timer stays
\* cancelled and its poller sends no GET_STATUS any more.
C16_PollerStopsOnTerminal ==
  [][\A p \in DOMAIN pollers :
       /\ pollers[p].interval = 1000
       /\ (event'.op = "tick" /\ event'.who = p)
            => /\ pollers[p].timer = "active"
               /\ outbox' = <<[type |-> "GET_STATUS", who |-> p, garment_url |-> Null,
                               model_photo |-> Null]>>
       /\ (event'.op = "reply" /\ event'.who = p)
            => /\ pollers'[p].timer =
                    IF event'.arg = "generating" THEN pollers[p].timer ELSE "cleared"
               /\ \A i \in DOMAIN outbox' : outbox'[i].type # "GET_STATUS"
       /\ pollers[p].timer = "cleared"
            => /\ pollers'[p].timer = "cleared"
               /\ \A i \in DOMAIN outbox' :
                    ~(outbox'[i].type = "GET_STATUS" /\ outbox'[i].who = p)]_vars

C16_Witness ==
  /\ event.op = "reply"
  /\ event.arg = "absent"
  /\ pollers[event.who].timer = "cleared"
  /\ pollers[event.who].inFlight > 0

C20_DedupedInDocumentOrder ==
  returned # <<>>
    => LET images == returned[1].images
           NoQuery(u) ==
             IF \E i \in DOMAIN u : u[i] = "?"
               THEN SubSeq(u, 1, (CHOOSE i \in DOMAIN u :
                                    u[i] = "?" /\ \A k \in 1..(i - 1) : u[k] # "?") - 1)
               ELSE u
           q == {i \in DOMAIN document : ~Skipped(document[i])}
           keep == {i \in q : \A k \in q : k < i =>
                      NoQuery(Resolved(document[k])) # NoQuery(Resolved(document[i]))}
           nth(n) == CHOOSE i \in keep : Cardinality({k \in keep : k < i}) = n - 1
       IN /\ \A m, n \in DOMAIN images : m # n => NoQuery(images[m]) # NoQuery(images[n])
          /\ Len(images) = Cardinality(keep)
          /\ \A n \in DOMAIN images : images[n] = Resolved(document[nth(n)])

C20_Witness ==
  /\ returned # <<>>
  /\ Len(document) = 3
  /\ ~Skipped(document[1]) /\ ~Skipped(document[2]) /\ ~Skipped(document[3])
  /\ Resolved(document[1]) = <<"http", "://shop/", "a.jpg", "?", "w=2">>
  /\ Resolved(document[2]) = <<"http", "://shop/", "b.jpg">>
  /\ Resolved(document[3]) = <<"http", "://shop/", "a.jpg">>
  /\ returned[1].images = <<Resolved(document[1]), Resolved(document[2])>>


\* C21: no returned image URL contains the piece 'logo', 'icon' or 'sprite',
\* whether it came from src, a lazy-load attribute or the srcset.
C21_NoLogoIconSprite ==
  returned # <<>>
    => \A n \in DOMAIN returned[1].images :
         \A i \in DOMAIN returned[1].images[n] :
           returned[1].images[n][i] \notin {"logo", "icon", "sprite"}


\* C22 as claimed: on a page whose only description element is the meta
\* description tag, the returned description equals that tag's content.
C22_MetaDescriptionReturned ==
  (/\ returned # <<>>
   /\ head.h1 = <<>>
   /\ head.ogDescription = <<>>
   /\ head.metaDescription # <<>>)
    => returned[1].description = head.metaDescription

\* C22 as amended: on such a page the returned description is the tag's
\* content cleaned up: empty when the content has at most 5 characters; at most
\* 800 characters long, without the removed phrases, without whitespace other
\* than single spaces, without leading or trailing whitespace; and equal to the
\* content when the content has 6 to 800 characters and is already clean.
C22_MetaDescriptionCleaned ==
  (/\ returned # <<>>
   /\ head.h1 = <<>>
   /\ head.ogDescription = <<>>
   /\ head.metaDescription # <<>>)
    => LET content == head.metaDescription
           description == returned[1].description
           chars(t) == IF t = <<>> THEN 0
                       ELSE LET sum[i \in 0..Len(t)] ==
                                  IF i = 0 THEN 0 ELSE sum[i - 1] + t[i].len
                            IN sum[Len(t)]
           clean(t) == /\ \A i \in DOMAIN t : t[i].kind \notin {"noise", "gap"}
                       /\ \A i \in DOMAIN t :
                            (i < Len(t) /\ t[i].kind = "space") => t[i + 1].kind # "space"
                       /\ t # <<>> => (t[1].kind # "space" /\ t[Len(t)].kind # "space")
       IN /\ chars(content) <= 5 => description = <<>>
          /\ chars(description) <= 800
          /\ chars(description) <= chars(content)
          /\ clean(description)
          /\ (chars(content) > 5 /\ chars(content) <= 800 /\ clean(content))
               => description = content
          /\ \A i \in DOMAIN description :
               description[i].kind = "word"
                 => \E k \in DOMAIN content : content[k].id = description[i].id

C22_Witness ==
  /\ returned # <<>>
  /\ head.h1 = <<>>
  /\ head.ogDescription = <<>>
  /\ head.metaDescription =
       <<[kind |-> "word", id |-> "Relaxed", len |-> 7], [kind |-> "space", id |-> " ", len |-> 1],
         [kind |-> "word", id |-> "fit", len |-> 3], [kind |-> "space", id |-> " ", len |-> 1],
         [kind |-> "noise", id |-> "Read more", len |-> 9]>>
  /\ returned[1].description =
       <<[kind |-> "word", id |-> "Relaxed", len |-> 7], [kind |-> "space", id |-> " ", len |-> 1],
         [kind |-> "word", id |-> "fit", len |-> 3]>>


\* C24: while the worker runs and the startup callback has run, the record
\* in memory equals the record in the Job Store; the startup callback does not
\* replace a record that a start, a clear or a finished call wrote after the
\* worker started.
C24_MemoryEqualsStore ==
  (bgAlive /\ getReply = <<>> /\ store # <<>>) => generationState = store[1]

\* C26: a step in which a generation call ends and writes Complete or Error
\* leaves in the record the startTime its own start wrote: never null, and
\* never another job's.
C26_StartTimeOfOwnStart ==
  [][\A j \in jobs :
       (last'.op \in {"fetch", "post"} /\ written' # <<>> /\ j \notin jobs'
          /\ generationState'.request = j.request)
         => /\ generationState'.status \in {"complete", "error"}
            /\ generationState'.startTime # -1
            /\ generationState'.startTime = j.startTime]_vars


\* C23: a record restored as Generating by the startup callback is eventually
\* Error (or otherwise no longer Generating) in the running worker, unless a
\* start or a clear is handled.
C23_RehydratedGeneratingEnds ==
  (last.op = "restore" /\ last.out = "generating")
    ~> \/ bgAlive /\ generationState.status # "generating"
       \/ last.op \in {"start", "clear"}

\* C25: every accepted start is eventually followed by a state in which the
\* record is not Generating, or by the termination of the worker.
C25_StartEventuallyEnds ==
  (last.op = "start") ~> (generationState.status # "generating" \/ ~bgAlive)

C25_Witness ==
  /\ last.op = "fetch"
  /\ last.live
  /\ last.out = "reader_error"
  /\ last.before = "generating"
  /\ generationState.status = "error"


\* C27: a CLEAR_RESULT sent by a popup because it was shown a Complete or Error
\* record is never handled while the record is Generating for a start that the
\* worker accepted after that popup's observation.
C27_ClearResetsObservedJobOnly ==
  [][\A m \in channel :
       (m \notin channel' /\ last'.op = "clear")
         => ~(generationState.status = "generating" /\ starts > m.at)]_vars

====
